---- MODULE Spec2Model ----
(***************************************************************************)
(* A model of enrich_movies_omdb_csv.py: the row loop of main, the cache   *)
(* (load_cache / save_cache / make_key), the retrying client omdb_get and  *)
(* the text helpers clean_text / normalize_year / put_if_value.            *)
(*                                                                         *)
(* A Python string is a sequence of one-character strings.  Three atoms    *)
(* stand for values that are not plain strings: NA (None / pd.NA), ARR (a  *)
(* JSON array of two or more elements) and MISSING (a key absent from a    *)
(* response).  A message produced by an f-string is a sequence of tokens   *)
(* (a literal prefix followed by the text that was formatted in).          *)
(***************************************************************************)
EXTENDS Integers, Sequences, FiniteSets, TLC

(***************************************************************************)
(* Bounds of the model.                                                    *)
(***************************************************************************)
NumRows == 2
MaxRetries == 2
MaxRuns == 2
MaxLen == 3

(***************************************************************************)
(* Values.                                                                 *)
(***************************************************************************)
NA == <<"<NA>">>
ARR == <<"<ARRAY>">>
MISSING == <<"<MISSING>">>
EMPTY == <<>>

LSQUO == "U+2018"
RSQUO == "U+2019"
LDQUO == "U+201C"
RDQUO == "U+201D"

IsSpace(c) == c \in {" ", "\t"}

IsDigit(c) == c \in {"0", "1", "2", "3", "4", "5", "6", "7", "8", "9"}

LowerChar(c) == IF c = "A" THEN "a" ELSE IF c = "B" THEN "b" ELSE c

(***************************************************************************)
(* str.replace of the four typographic quotes (lines 39-42).               *)
(***************************************************************************)
ReplaceQuotes(s) ==
    [k \in DOMAIN s |->
        IF s[k] \in {RSQUO, LSQUO} THEN "'"
        ELSE IF s[k] \in {LDQUO, RDQUO} THEN "\""
        ELSE s[k]]

RECURSIVE LStrip(_)
LStrip(s) ==
    IF s = <<>> THEN <<>>
    ELSE IF IsSpace(Head(s)) THEN LStrip(Tail(s))
    ELSE s

RECURSIVE RStrip(_)
RStrip(s) ==
    IF s = <<>> THEN <<>>
    ELSE IF IsSpace(s[Len(s)]) THEN RStrip(SubSeq(s, 1, Len(s) - 1))
    ELSE s

(* str.strip() *)
Strip(s) == RStrip(LStrip(s))

(* re.sub(r"\s+", " ", s): every maximal run of whitespace becomes one space *)
RECURSIVE CollapseWs(_)
CollapseWs(s) ==
    IF s = <<>> THEN <<>>
    ELSE IF IsSpace(Head(s)) THEN <<" ">> \o CollapseWs(LStrip(Tail(s)))
    ELSE <<Head(s)>> \o CollapseWs(Tail(s))

(* str.lower() *)
Lower(s) == [k \in DOMAIN s |-> LowerChar(s[k])]

(***************************************************************************)
(* clean_text (lines 33-46).  pd.isna of a list is an array, and the truth *)
(* value of an array of two or more elements raises ValueError.            *)
(***************************************************************************)
CleanRaises(x) == x = ARR

clean_text(x) ==
    IF x = NA THEN <<>>
    ELSE CollapseWs(Strip(ReplaceQuotes(x)))

(* normalize_year (lines 49-52) *)
normalize_year(x) ==
    LET s == clean_text(x)
    IN  IF Len(s) = 4 /\ \A k \in DOMAIN s : IsDigit(s[k]) THEN s ELSE <<>>

(* a variant that keeps the letter case *)
make_keyCased(title, year) == Strip(title) \o <<"|", "|">> \o Strip(year)

(* make_key (lines 81-82) *)
make_key(title, year) == Lower(Strip(title)) \o <<"|", "|">> \o Strip(year)

(***************************************************************************)
(* The table.  ensure_columns (lines 85-91) puts the seven required        *)
(* columns first and keeps every other column; "Notes" is such a column.   *)
(* A Row cell of 0 is the "" that ensure_columns writes into a Row column  *)
(* the input lacks; positions are 1-based, so 0 is never a position.       *)
(***************************************************************************)
RowDefault == 0

MkRow(title, year, old) ==
    [Row |-> RowDefault, Title |-> title, Year |-> year,
     Genre |-> old, imdbRating |-> old, Actors |-> old, BoxOffice |-> old,
     Notes |-> <<"n">>]

BlankTitle == <<" ">>
Y1999 == <<"1", "9", "9", "9">>

RowInputs ==
    { MkRow(<<"a">>, NA, NA),
      MkRow(<<" ", "A", "\t">>, <<"1", "9">>, <<"7">>),
      MkRow(<<"a">>, Y1999, <<"7">>),
      MkRow(BlankTitle, NA, <<"7">>) }

(***************************************************************************)
(* Responses: what r.json() (line 107) or a cache entry can be: a mapping, *)
(* a falsy value that is no mapping (null, [], 0, "": JsonNull) or a       *)
(* truthy one (a non-empty list or string, a number: JsonList).  A field   *)
(* of a mapping is a string, null (NA), absent (MISSING) or an array of    *)
(* two or more elements (ARR).                                             *)
(***************************************************************************)
MkResp(kind, flag, year, genre, rating, actors, box, error) ==
    [kind |-> kind, Response |-> flag, Title |-> <<"a">>, Year |-> year,
     Genre |-> genre, imdbRating |-> rating, Actors |-> actors,
     BoxOffice |-> box, Error |-> error]

Y2000 == <<"2", "0", "0", "0">>

OkFull == MkResp("dict", "True", Y2000, <<" ", "g">>, <<"8">>, <<"x">>, <<"$">>, MISSING)
OkPart == MkResp("dict", "True", MISSING, <<"g">>, <<" ">>, NA, MISSING, MISSING)
OkArr == MkResp("dict", "True", Y2000, <<"g">>, <<"8">>, ARR, <<"$">>, MISSING)
NotFound == MkResp("dict", "False", MISSING, MISSING, MISSING, MISSING, MISSING, <<"n", "f">>)
NoError == MkResp("dict", "False", MISSING, MISSING, MISSING, MISSING, MISSING, MISSING)
JsonNull == MkResp("null", "", MISSING, MISSING, MISSING, MISSING, MISSING, MISSING)
JsonList == MkResp("list", "", MISSING, MISSING, MISSING, MISSING, MISSING, MISSING)

Responses == { OkFull, OkPart, OkArr, NotFound, NoError, JsonNull, JsonList }

NoData == MkResp("none", "", MISSING, MISSING, MISSING, MISSING, MISSING, MISSING)

(* data.get(field, default) on a mapping *)
Get(data, field, default) ==
    IF data[field] = MISSING THEN default ELSE data[field]

(* isinstance(data, dict) and data.get("Response") == "True" (lines 171, 190) *)
IsSuccess(data) == data.kind = "dict" /\ data.Response = "True"

(***************************************************************************)
(* Files.  A file is absent, holds a serialized JSON value (a mapping, a   *)
(* list or string, a scalar), or holds text json.load cannot parse:        *)
(* "garbage" placed there from outside, "partial" a write not finished.    *)
(***************************************************************************)
EmptyMap == [k \in {} |-> NoData]

File(kind, map) == [kind |-> kind, map |-> map]

Absent == File("absent", EmptyMap)

CachePath == <<"omdb_cache.json">>
NoPath == <<>>

(* a variant that writes the cache file in place *)
TmpPathInPlace(p) == p

(* tmp = path + ".tmp" (line 75) *)
TmpPath(p) == p \o <<".tmp">>

FileNames == { CachePath, TmpPath(CachePath) }

(***************************************************************************)
(* load_cache (lines 62-69): json.load's value is returned as it is.       *)
(***************************************************************************)
load_cache(path, files) ==
    IF path = NoPath \/ files[path].kind = "absent" THEN File("dict", EmptyMap)
    ELSE IF files[path].kind \in {"garbage", "partial"} THEN File("dict", EmptyMap)
    ELSE files[path]

(* key in cache (line 158): membership for a mapping, a list or a string;
   TypeError for a number, a boolean or null *)
InRaises(c) == c.kind = "scalar"

KeyIn(key, c) == key \in DOMAIN c.map

(* cache[key] (line 159) and cache[key] = data (line 164) raise TypeError
   unless the cache is a mapping *)
SubscriptRaises(c) == c.kind # "dict"

(***************************************************************************)
(* State.                                                                  *)
(***************************************************************************)
VARIABLES
    input,       \* the table as read by pd.read_csv and ensure_columns
    df,          \* the table being enriched
    path,        \* args.cache
    retries,     \* args.retries
    fs,          \* the files at the cache path and at its .tmp path
    cache,       \* the in-memory cache
    pc,          \* position in main
    i,           \* the loop index (0-based)
    data,        \* the response in hand
    attempt,     \* omdb_get's loop variable
    sleeps,      \* the time.sleep calls of the current omdb_get call, in 0.1 s
    err,         \* the exception in flight
    cache_hits,
    api_calls,
    output,      \* the table written by df.to_csv, <<>> before that
    rowlog,      \* per row: what the run did for it
    saveFrom,    \* the file at the cache path when save_cache was last entered
                 \* (when the run started, before the first save)
    run,         \* number of the current run
    persisted,   \* keys an earlier run of the pipeline stored and saved
    responded,   \* keys for which an earlier run's omdb_get returned
    probe        \* the arguments and results of the text functions called alone

vars == <<input, df, path, retries, fs, cache, pc, i, data, attempt, sleeps,
          err, cache_hits, api_calls, output, rowlog, saveFrom, run,
          persisted, responded, probe>>

(* no text function is being called alone *)
NoProbe == [stage |-> "none", x |-> <<>>, out |-> <<>>, again |-> <<>>,
            s |-> <<>>, t |-> <<>>, ys |-> NA, yt |-> NA, same |-> FALSE,
            ks |-> <<>>, kt |-> <<>>]

total == Len(df)

NoLog == [lookup |-> FALSE, hit |-> FALSE, fetch |-> "none", stored |-> FALSE,
          saves |-> 0, saved |-> FALSE, counted |-> FALSE, delay |-> FALSE,
          outcome |-> "pending"]

(* the locals title, year and key of the current row (lines 146-151) *)
title == clean_text(df[i + 1].Title)
year == normalize_year(df[i + 1].Year)
key == make_key(title, year)

(* the key of row n (1-based) of the table as read *)
InputKey(n) == make_key(clean_text(input[n].Title), normalize_year(input[n].Year))

Log(field, value) == [rowlog EXCEPT ![i + 1][field] = value]

Log2(f1, v1, f2, v2) == [rowlog EXCEPT ![i + 1][f1] = v1, ![i + 1][f2] = v2]

(***************************************************************************)
(* Initial states: the arguments are parsed, the table is read, the        *)
(* columns are ensured and cast to text (lines 116-137).                   *)
(***************************************************************************)
GarbageFile == File("garbage", EmptyMap)
ScalarFile == File("scalar", EmptyMap)
ListFile == File("list", [k \in {make_key(<<"a">>, <<>>)} |-> NoData])
DictFile == File("dict", [k \in {make_key(<<"a">>, <<>>)} |-> NotFound])

InitFiles == { Absent, GarbageFile, ScalarFile, ListFile, DictFile }

InitWith(rows, paths, files, retryChoices) ==
    /\ input \in [1..NumRows -> rows]
    /\ df = input
    /\ path \in paths
    /\ retries \in retryChoices
    /\ \E f \in files :
          fs = [n \in FileNames |->
                   IF n = CachePath /\ path # NoPath THEN f ELSE Absent]
    /\ cache = File("dict", EmptyMap)
    /\ pc = "start"
    /\ i = 0
    /\ data = NoData
    /\ attempt = 0
    /\ sleeps = <<>>
    /\ err = ""
    /\ cache_hits = 0
    /\ api_calls = 0
    /\ output = <<>>
    /\ rowlog = [n \in 1..NumRows |-> NoLog]
    /\ saveFrom = (IF path = NoPath THEN Absent ELSE fs[path])
    /\ run = 1
    /\ persisted = {}
    /\ responded = {}
    /\ probe = NoProbe

Init == InitWith(RowInputs, {CachePath, NoPath}, InitFiles, 1..MaxRetries)

(***************************************************************************)
(* main, line 139: cache = load_cache(args.cache)                          *)
(***************************************************************************)
LoadCache ==
    /\ pc = "start"
    /\ cache' = load_cache(path, fs)
    /\ pc' = "loop"
    /\ UNCHANGED <<probe, input, df, path, retries, fs, i, data, attempt, sleeps, err,
                   cache_hits, api_calls, output, rowlog, saveFrom, run,
                   persisted, responded>>

(* a variant that skips no row *)
SkipsNever(t) == FALSE

(* line 147: if not title *)
Skips(t) == t = <<>>

(* lines 146-148: a row whose cleaned title is empty is skipped *)
SkipRow ==
    /\ pc = "loop"
    /\ i < total
    /\ Skips(title)
    /\ i' = i + 1
    /\ rowlog' = Log("outcome", "skipped")
    /\ UNCHANGED <<probe, input, df, path, retries, fs, cache, pc, data, attempt,
                   sleeps, err, cache_hits, api_calls, output, saveFrom, run,
                   persisted, responded>>

(* lines 158-161: the key is in the cache *)
CacheHit ==
    /\ pc = "loop"
    /\ i < total
    /\ ~Skips(title)
    /\ ~InRaises(cache)
    /\ KeyIn(key, cache)
    /\ ~SubscriptRaises(cache)
    /\ data' = cache.map[key]
    /\ cache_hits' = cache_hits + 1
    /\ pc' = "report"
    /\ rowlog' = Log2("lookup", TRUE, "hit", TRUE)
    /\ UNCHANGED <<probe, input, df, path, retries, fs, cache, i, attempt, sleeps,
                   err, api_calls, output, saveFrom, run, persisted, responded>>

(* lines 158-159: `key in cache` or `cache[key]` raises TypeError because the
   loaded cache is no mapping *)
LookupRaises ==
    /\ pc = "loop"
    /\ i < total
    /\ ~Skips(title)
    /\ InRaises(cache) \/ (KeyIn(key, cache) /\ SubscriptRaises(cache))
    /\ err' = "TypeError"
    /\ pc' = "except"
    /\ rowlog' = Log("lookup", TRUE)
    /\ UNCHANGED <<probe, input, df, path, retries, fs, cache, i, data, attempt,
                   sleeps, cache_hits, api_calls, output, saveFrom, run,
                   persisted, responded>>

(* lines 162-163, 95-99: the key is not in the cache; omdb_get is entered *)
CacheMiss ==
    /\ pc = "loop"
    /\ i < total
    /\ ~Skips(title)
    /\ ~InRaises(cache)
    /\ ~KeyIn(key, cache)
    /\ attempt' = 1
    /\ sleeps' = <<>>
    /\ pc' = "fetch"
    /\ rowlog' = Log2("lookup", TRUE, "fetch", "calling")
    /\ UNCHANGED <<probe, input, df, path, retries, fs, cache, i, data, err,
                   cache_hits, api_calls, output, saveFrom, run, persisted,
                   responded>>

(***************************************************************************)
(* omdb_get (lines 94-112).                                                *)
(***************************************************************************)
BaseDelay == 8

(* a variant whose loop ends one attempt early *)
InRangeShort(a, r) == a < r

(* line 99: for attempt in range(1, retries + 1) *)
InRange(a, r) == a <= r

(* time.sleep(0.8 * (2 ** (attempt - 1))) (line 110), in tenths of a second *)
Backoff(a) == BaseDelay * (2 ^ (a - 1))

(* lines 99-110: an attempt fails (transport error, status other than 200,
   unparseable body); the except block sleeps, and the loop goes on *)
AttemptFails ==
    /\ pc = "fetch"
    /\ InRange(attempt, retries)
    /\ sleeps' = Append(sleeps, Backoff(attempt))
    /\ attempt' = attempt + 1
    /\ UNCHANGED <<probe, input, df, path, retries, fs, cache, pc, i, data, err,
                   cache_hits, api_calls, output, rowlog, saveFrom, run,
                   persisted, responded>>

(* lines 99-107: an attempt gets status 200 and a parseable body *)
AttemptReturns(bodies) ==
    /\ pc = "fetch"
    /\ InRange(attempt, retries)
    /\ \E r \in bodies : data' = r
    /\ pc' = "store"
    /\ rowlog' = Log("fetch", "returned")
    /\ UNCHANGED <<probe, input, df, path, retries, fs, cache, i, attempt, sleeps,
                   err, cache_hits, api_calls, output, saveFrom, run,
                   persisted, responded>>

(* line 112: the loop is over, omdb_get raises RuntimeError *)
OmdbRaises ==
    /\ pc = "fetch"
    /\ ~InRange(attempt, retries)
    /\ err' = "RuntimeError"
    /\ pc' = "except"
    /\ rowlog' = Log("fetch", "exhausted")
    /\ UNCHANGED <<probe, input, df, path, retries, fs, cache, i, data, attempt,
                   sleeps, cache_hits, api_calls, output, saveFrom, run,
                   persisted, responded>>

(***************************************************************************)
(* main, line 164: cache[key] = data; line 165 enters save_cache           *)
(***************************************************************************)
(* a variant that leaves the cache as it was *)
StoreEntryDropped(c, k, d) == c

(* a variant that starts a new mapping with the entry *)
StoreEntryOnly(c, k, d) == File("dict", [x \in {k} |-> d])

StoreEntry(c, k, d) ==
    File("dict", [x \in DOMAIN c.map \cup {k} |-> IF x = k THEN d ELSE c.map[x]])

StoreInCache ==
    /\ pc = "store"
    /\ ~SubscriptRaises(cache)
    /\ cache' = StoreEntry(cache, key, data)
    /\ pc' = "save"
    /\ saveFrom' = IF path = NoPath THEN Absent ELSE fs[path]
    /\ rowlog' = Log2("stored", TRUE, "saves", rowlog[i + 1].saves + 1)
    /\ attempt' = 0
    /\ sleeps' = <<>>
    /\ UNCHANGED <<probe, input, df, path, retries, fs, i, data, err, cache_hits,
                   api_calls, output, run, persisted, responded>>

StoreRaises ==
    /\ pc = "store"
    /\ SubscriptRaises(cache)
    /\ err' = "TypeError"
    /\ pc' = "except"
    /\ attempt' = 0
    /\ sleeps' = <<>>
    /\ UNCHANGED <<probe, input, df, path, retries, fs, cache, i, data, cache_hits,
                   api_calls, output, rowlog, saveFrom, run, persisted,
                   responded>>

(***************************************************************************)
(* save_cache (lines 72-78)                                                *)
(***************************************************************************)
(* lines 73-74: no path, nothing is written *)
SaveNoPath ==
    /\ pc = "save"
    /\ path = NoPath
    /\ pc' = "count"
    /\ UNCHANGED <<probe, input, df, path, retries, fs, cache, i, data, attempt,
                   sleeps, err, cache_hits, api_calls, output, rowlog,
                   saveFrom, run, persisted, responded>>

(* line 76: open(tmp, "w") creates or truncates the temporary file *)
SaveOpen ==
    /\ pc = "save"
    /\ path # NoPath
    /\ fs' = [fs EXCEPT ![TmpPath(path)] = File("partial", EmptyMap)]
    /\ pc' = "save_dump"
    /\ UNCHANGED <<probe, input, df, path, retries, cache, i, data, attempt, sleeps,
                   err, cache_hits, api_calls, output, rowlog, saveFrom, run,
                   persisted, responded>>

(* line 77 and the end of the with block: the mapping is written out *)
SaveDump ==
    /\ pc = "save_dump"
    /\ fs' = [fs EXCEPT ![TmpPath(path)] = cache]
    /\ pc' = "save_replace"
    /\ UNCHANGED <<probe, input, df, path, retries, cache, i, data, attempt, sleeps,
                   err, cache_hits, api_calls, output, rowlog, saveFrom, run,
                   persisted, responded>>

(* a variant that leaves the target as it was *)
ReplaceSkipped(files, from, to) == files

(* line 78: os.replace(tmp, path) *)
Replace(files, from, to) ==
    IF from = to THEN files
    ELSE [files EXCEPT ![to] = files[from], ![from] = Absent]

SaveReplace ==
    /\ pc = "save_replace"
    /\ fs' = Replace(fs, TmpPath(path), path)
    /\ pc' = "count"
    /\ rowlog' = Log("saved", TRUE)
    /\ UNCHANGED <<probe, input, df, path, retries, cache, i, data, attempt, sleeps,
                   err, cache_hits, api_calls, output, saveFrom, run,
                   persisted, responded>>

(* open, the write or os.replace raises OSError (no space, no permission) *)
SaveRaises ==
    /\ pc \in {"save", "save_dump", "save_replace"}
    /\ path # NoPath
    /\ err' = "OSError"
    /\ pc' = "except"
    /\ UNCHANGED <<probe, input, df, path, retries, fs, cache, i, data, attempt,
                   sleeps, cache_hits, api_calls, output, rowlog, saveFrom,
                   run, persisted, responded>>

(* lines 166-168: api_calls += 1; src = "API"; time.sleep(args.sleep) *)
CountApiCall ==
    /\ pc = "count"
    /\ api_calls' = api_calls + 1
    /\ pc' = "report"
    /\ rowlog' = Log2("counted", TRUE, "delay", TRUE)
    /\ UNCHANGED <<probe, input, df, path, retries, fs, cache, i, data, attempt,
                   sleeps, err, cache_hits, output, saveFrom, run, persisted,
                   responded>>

(***************************************************************************)
(* lines 171-181: the progress line.  Its expressions can raise inside the *)
(* try block: clean_text on an array, .get on a response that is neither a *)
(* mapping nor falsy.                                                      *)
(***************************************************************************)
ReportError(d) ==
    IF IsSuccess(d)
    THEN IF \/ CleanRaises(Get(d, "Title", EMPTY))
            \/ CleanRaises(Get(d, "Year", EMPTY))
            \/ CleanRaises(Get(d, "imdbRating", EMPTY))
         THEN "ValueError" ELSE ""
    ELSE IF d.kind = "list" THEN "AttributeError"
    ELSE IF d.kind = "dict" /\ CleanRaises(Get(d, "Error", <<"Unknown">>))
         THEN "ValueError" ELSE ""

Report ==
    /\ pc = "report"
    /\ ReportError(data) = ""
    /\ pc' = "reconcile"
    /\ UNCHANGED <<probe, input, df, path, retries, fs, cache, i, data, attempt,
                   sleeps, err, cache_hits, api_calls, output, rowlog,
                   saveFrom, run, persisted, responded>>

ReportRaises ==
    /\ pc = "report"
    /\ ReportError(data) # ""
    /\ err' = ReportError(data)
    /\ pc' = "except"
    /\ UNCHANGED <<probe, input, df, path, retries, fs, cache, i, data, attempt,
                   sleeps, cache_hits, api_calls, output, rowlog, saveFrom,
                   run, persisted, responded>>

(***************************************************************************)
(* lines 183-187: the except block of the row                              *)
(***************************************************************************)
(* line 186: df.loc[i, "imdbRating"] = f"ERROR: {e}" *)
ErrorCell(current, e) == <<"ERROR: ", e>>

HandleError ==
    /\ pc = "except"
    /\ df' = [df EXCEPT ![i + 1].imdbRating = ErrorCell(@, err)]
    /\ i' = i + 1
    /\ pc' = "loop"
    /\ err' = ""
    /\ data' = NoData
    /\ attempt' = 0
    /\ sleeps' = <<>>
    /\ rowlog' = Log("outcome", "error")
    /\ UNCHANGED <<probe, input, path, retries, fs, cache, cache_hits, api_calls,
                   output, saveFrom, run, persisted, responded>>

(***************************************************************************)
(* lines 189-205: the response is merged into the row                      *)
(***************************************************************************)
(* a variant that writes the cleaned value even when it is empty *)
put_if_valueAlways(row, col, new_val) == [row EXCEPT ![col] = clean_text(new_val)]

(* put_if_value (lines 55-59) on one row *)
put_if_value(row, col, new_val) ==
    LET v == clean_text(new_val)
    IN  IF v # <<>> THEN [row EXCEPT ![col] = v] ELSE row

(* a variant that writes the response's Year whatever the row carries *)
WritesYearAlways(y) == TRUE

(* line 191: the response's Year is written when the row carries no year *)
WritesYear(y) == y = <<>>

(* lines 191-196: the columns put_if_value is called for, in order *)
Puts(d, y) ==
    (IF WritesYear(y) THEN << <<"Year", Get(d, "Year", EMPTY)>> >> ELSE << >>)
    \o << <<"Genre", Get(d, "Genre", EMPTY)>>,
          <<"imdbRating", Get(d, "imdbRating", EMPTY)>>,
          <<"Actors", Get(d, "Actors", EMPTY)>>,
          <<"BoxOffice", Get(d, "BoxOffice", EMPTY)>> >>

(* the calls are made in order; one that raises ends them *)
RECURSIVE PutAll(_, _)
PutAll(row, todo) ==
    IF todo = <<>> THEN [row |-> row, raised |-> FALSE]
    ELSE IF CleanRaises(Head(todo)[2]) THEN [row |-> row, raised |-> TRUE]
    ELSE PutAll(put_if_value(row, Head(todo)[1], Head(todo)[2]), Tail(todo))

(* a variant that tags whatever the cell holds *)
NeedsTagAlways(current) == TRUE

(* line 201: pd.isna(current) or clean_text(current) == "" *)
NeedsTag(current) == current = NA \/ clean_text(current) = <<>>

(* a variant that also clears the Genre cell *)
TagNotFoundWide(row, d) ==
    [row EXCEPT !.imdbRating = <<"NOT FOUND: ">>, !.Genre = NA]

(* lines 199-202: the not-found tag *)
TagNotFound(row, d) ==
    LET e == clean_text(IF d.kind = "dict" THEN Get(d, "Error", <<"Unknown">>)
                        ELSE <<"Unknown">>)
    IN  IF NeedsTag(row.imdbRating)
        THEN [row EXCEPT !.imdbRating = <<"NOT FOUND: ">> \o e]
        ELSE row

Merged(row, d, y) ==
    IF IsSuccess(d) THEN PutAll(row, Puts(d, y))
    ELSE [row |-> TagNotFound(row, d), raised |-> FALSE]

Reconcile ==
    /\ pc = "reconcile"
    /\ ~Merged(df[i + 1], data, year).raised
    /\ df' = [df EXCEPT ![i + 1] =
                 [Merged(df[i + 1], data, year).row EXCEPT !.Row = i + 1]]
    /\ i' = i + 1
    /\ pc' = "loop"
    /\ data' = NoData
    /\ rowlog' = Log("outcome", "reconciled")
    /\ UNCHANGED <<probe, input, path, retries, fs, cache, attempt, sleeps, err,
                   cache_hits, api_calls, output, saveFrom, run, persisted,
                   responded>>

(* lines 192-196 are outside the try block: an exception of put_if_value
   leaves main, and the process ends without writing the output *)
ReconcileRaises ==
    /\ pc = "reconcile"
    /\ Merged(df[i + 1], data, year).raised
    /\ df' = [df EXCEPT ![i + 1] = Merged(df[i + 1], data, year).row]
    /\ pc' = "crashed"
    /\ err' = "ValueError"
    /\ UNCHANGED <<probe, input, path, retries, fs, cache, i, data, attempt, sleeps,
                   cache_hits, api_calls, output, rowlog, saveFrom, run,
                   persisted, responded>>

(* line 207: df.to_csv after the loop *)
WriteOutput ==
    /\ pc = "loop"
    /\ i = total
    /\ output' = df
    /\ pc' = "done"
    /\ UNCHANGED <<probe, input, df, path, retries, fs, cache, i, data, attempt,
                   sleeps, err, cache_hits, api_calls, rowlog, saveFrom, run,
                   persisted, responded>>

(***************************************************************************)
(* The environment: the process is terminated from outside at any point of *)
(* a run, and the pipeline is run again on the same input with the files   *)
(* the earlier run left.                                                   *)
(***************************************************************************)
Interrupt ==
    /\ pc \notin {"done", "crashed", "interrupted"}
    /\ pc' = "interrupted"
    /\ UNCHANGED <<probe, input, df, path, retries, fs, cache, i, data, attempt,
                   sleeps, err, cache_hits, api_calls, output, rowlog,
                   saveFrom, run, persisted, responded>>

RunAgain ==
    /\ pc \in {"done", "crashed", "interrupted"}
    /\ run < MaxRuns
    /\ run' = run + 1
    /\ persisted' = persisted \cup
           { InputKey(n) : n \in { m \in 1..NumRows : rowlog[m].saved } }
    /\ responded' = responded \cup
           { InputKey(n) : n \in { m \in 1..NumRows : rowlog[m].fetch = "returned" } }
    /\ df' = input
    /\ cache' = File("dict", EmptyMap)
    /\ pc' = "start"
    /\ i' = 0
    /\ data' = NoData
    /\ attempt' = 0
    /\ sleeps' = <<>>
    /\ err' = ""
    /\ cache_hits' = 0
    /\ api_calls' = 0
    /\ output' = <<>>
    /\ rowlog' = [n \in 1..NumRows |-> NoLog]
    /\ saveFrom' = (IF path = NoPath THEN Absent ELSE fs[path])
    /\ UNCHANGED <<probe, input, path, retries, fs>>

(***************************************************************************)
(* One run of the pipeline.                                                *)
(***************************************************************************)
Step(bodies) ==
    \/ LoadCache
    \/ SkipRow
    \/ CacheHit
    \/ LookupRaises
    \/ CacheMiss
    \/ AttemptFails
    \/ AttemptReturns(bodies)
    \/ OmdbRaises
    \/ StoreInCache
    \/ StoreRaises
    \/ SaveNoPath
    \/ SaveOpen
    \/ SaveDump
    \/ SaveReplace
    \/ SaveRaises
    \/ CountApiCall
    \/ Report
    \/ ReportRaises
    \/ HandleError
    \/ Reconcile
    \/ ReconcileRaises
    \/ WriteOutput

Next == Step(Responses)

Spec == Init /\ [][Next]_vars

(***************************************************************************)
(* Runs that can be terminated from outside and started again.             *)
(***************************************************************************)
ResumeRows ==
    { MkRow(<<"a">>, NA, NA),
      MkRow(<<"a">>, Y1999, <<"7">>),
      MkRow(BlankTitle, NA, <<"7">>) }

ResumeResponses == { OkFull, OkArr, NotFound, JsonList }

InitResume ==
    InitWith(ResumeRows, {CachePath, NoPath}, {Absent, ListFile, DictFile}, {1})

NextResume ==
    \/ Step(ResumeResponses)
    \/ Interrupt
    \/ RunAgain

SpecResume == InitResume /\ [][NextResume]_vars

(***************************************************************************)
(* The text functions called alone: clean_text on a value, then on its own *)
(* result; and the key of two rows, computed as main computes it (lines    *)
(* 146-151), where the second title is the first with one change that the  *)
(* spec says does not matter, or another title.                            *)
(***************************************************************************)
TextChars == {"a", "A", " ", "\t", RSQUO, "'"}

Texts == UNION { [1..k -> TextChars] : k \in 0..MaxLen }

CleanInputs == Texts \cup {NA, ARR}

YearCells == { NA, Y1999, Y2000, <<"1", "9">> }

Blank(c) == c \in {" ", "\t"}

SwapChar(c) ==
    IF c = "a" THEN "A" ELSE IF c = "A" THEN "a"
    ELSE IF c = "'" THEN RSQUO ELSE IF c = RSQUO THEN "'"
    ELSE IF c = " " THEN "\t" ELSE IF c = "\t" THEN " "
    ELSE c

(* the letter case, the quote style or the kind of blank changed at one place *)
Swapped(s) == { [s EXCEPT ![p] = SwapChar(s[p])] : p \in DOMAIN s }

(* a blank added in front, at the end, or next to a blank *)
Padded(s) ==
    { SubSeq(s, 1, p) \o <<w>> \o SubSeq(s, p + 1, Len(s)) :
        p \in { q \in 0..Len(s) :
                  \/ q = 0
                  \/ q = Len(s)
                  \/ Blank(s[q])
                  \/ Blank(s[q + 1]) },
        w \in {" ", "\t"} }

SameTitle(s) == {s} \cup Swapped(s) \cup Padded(s)

OtherTitles == { <<"a">>, <<"'", "A">> }

InitText ==
    /\ input = <<>>
    /\ df = <<>>
    /\ path = NoPath
    /\ retries = 1
    /\ fs = [n \in FileNames |-> Absent]
    /\ cache = File("dict", EmptyMap)
    /\ pc = "idle"
    /\ i = 0
    /\ data = NoData
    /\ attempt = 0
    /\ sleeps = <<>>
    /\ err = ""
    /\ cache_hits = 0
    /\ api_calls = 0
    /\ output = <<>>
    /\ rowlog = <<>>
    /\ saveFrom = Absent
    /\ run = 1
    /\ persisted = {}
    /\ responded = {}
    /\ \/ \E x \in CleanInputs :
             probe = [NoProbe EXCEPT !.stage = "text", !.x = x]
       \/ \E s \in Texts, ys \in YearCells, yt \in YearCells :
             \E t \in SameTitle(s) \cup OtherTitles :
                probe = [NoProbe EXCEPT !.stage = "titles", !.s = s, !.t = t,
                                        !.ys = ys, !.yt = yt,
                                        !.same = (t \in SameTitle(s))]

Idle ==
    UNCHANGED <<input, df, path, retries, fs, cache, pc, i, data, attempt,
                sleeps, err, cache_hits, api_calls, output, rowlog, saveFrom,
                run, persisted, responded>>

(* clean_text(x) returns *)
CleanOnce ==
    /\ probe.stage = "text"
    /\ ~CleanRaises(probe.x)
    /\ probe' = [probe EXCEPT !.stage = "cleaned", !.out = clean_text(probe.x)]
    /\ Idle

(* clean_text(x) raises ValueError at line 35 *)
CleanFails ==
    /\ probe.stage = "text"
    /\ CleanRaises(probe.x)
    /\ probe' = [probe EXCEPT !.stage = "raised"]
    /\ Idle

(* clean_text(clean_text(x)) *)
CleanTwice ==
    /\ probe.stage = "cleaned"
    /\ probe' = [probe EXCEPT !.stage = "recleaned", !.again = clean_text(probe.out)]
    /\ Idle

(* lines 146-151 for two rows *)
MakeKeys ==
    /\ probe.stage = "titles"
    /\ probe' = [probe EXCEPT
           !.stage = "keyed",
           !.ks = make_key(clean_text(probe.s), normalize_year(probe.ys)),
           !.kt = make_key(clean_text(probe.t), normalize_year(probe.yt))]
    /\ Idle

NextText ==
    \/ CleanOnce
    \/ CleanFails
    \/ CleanTwice
    \/ MakeKeys

SpecText == InitText /\ [][NextText]_vars

(***************************************************************************)
(* Properties.                                                             *)
(***************************************************************************)
Rows == 1..NumRows

HasTitle(n) == clean_text(input[n].Title) # <<>>

ValidYear(n) == normalize_year(input[n].Year) # <<>>

EmptyCell(v) == v = NA \/ clean_text(v) = <<>>

Fetched(n) == rowlog[n].fetch # "none"

(* the response row n was reconciled with, when the cache is a mapping *)
HasEntry(n) == cache.kind = "dict" /\ InputKey(n) \in DOMAIN cache.map
Entry(n) == cache.map[InputKey(n)]

(* C1, as stated: across one run and for every pattern of fetch outcomes,
   omdb_get is invoked for at most one row of each LookupKey. *)
C1_OneFetchPerKey ==
    \A m, n \in Rows :
        (m < n /\ Fetched(m) /\ Fetched(n)) => InputKey(m) # InputKey(n)

(* C1, amended: once a row's fetch has returned a response and the response
   is stored in the in-memory cache, every later row with the same LookupKey
   is served from the cache and omdb_get is not invoked for it; a fetch that
   exhausted its retries stores nothing, and the next row with that key
   invokes omdb_get again. *)
C1_NoFetchOnceStored ==
    \A m, n \in Rows :
        (m < n /\ rowlog[m].stored /\ InputKey(m) = InputKey(n) /\ rowlog[n].lookup)
            => (rowlog[n].hit /\ ~Fetched(n))

C1_Witness ==
    \E m, n \in Rows :
        /\ m < n
        /\ InputKey(m) = InputKey(n)
        /\ rowlog[m].stored
        /\ rowlog[n].hit
        /\ pc = "done"

(* C2: when the run ends, the Row cell of every row i (0-based) with a
   non-empty cleaned Title is i+1, whatever the row's outcome was. *)
C2_RowCellSet ==
    pc = "done" => \A n \in Rows : HasTitle(n) => output[n].Row = n

(* C3: when a row's fetch fails after all retries, a non-empty imdbRating
   the row had before processing is still its imdbRating afterwards. *)
C3_ErrorKeepsRating ==
    \A n \in Rows :
        (rowlog[n].fetch = "exhausted" /\ rowlog[n].outcome = "error"
            /\ ~EmptyCell(input[n].imdbRating))
        => df[n].imdbRating = input[n].imdbRating

(* C4: when omdb_get raises after retries = n >= 1 failed attempts, it has
   made n attempts and slept n-1 times, the k-th sleep lasting
   0.8 * 2^(k-1) seconds: no sleep follows the last failed attempt. *)
C4_SleepsBetweenAttempts ==
    (pc = "except" /\ err = "RuntimeError") =>
        /\ attempt - 1 = retries
        /\ Len(sleeps) = retries - 1
        /\ \A k \in DOMAIN sleeps : sleeps[k] = 8 * (2 ^ (k - 1))

(* C5: no row's outcome halts the batch: the run does not end before the
   output is written, and when it is written the loop has gone through all
   N rows and the output holds the N rows in their original order. *)
C5_ReachesOutput ==
    /\ pc # "crashed"
    /\ pc = "done" =>
          /\ i = NumRows
          /\ Len(output) = NumRows
          /\ \A n \in Rows : output[n].Title = input[n].Title

(* C6: a row whose Year cell normalizes to a 4-digit year keeps its Year
   cell, for every response; the Year cell changes only in a row whose
   normalized year is empty. *)
C6_ValidYearKept ==
    \A n \in Rows : ValidYear(n) => df[n].Year = input[n].Year

C6_Witness ==
    \E n \in Rows :
        /\ ValidYear(n)
        /\ rowlog[n].outcome = "reconciled"
        /\ HasEntry(n)
        /\ IsSuccess(Entry(n))
        /\ clean_text(Get(Entry(n), "Year", EMPTY)) \notin {<<>>, input[n].Year}
        /\ \E m \in Rows : ~ValidYear(m) /\ df[m].Year # input[m].Year

(* C7: a row reconciled with a logical not-found (a mapping whose Response
   flag is not "True"), fetched or cached, gets "NOT FOUND: <error text>" in
   imdbRating when that cell was missing or empty after cleaning, keeps a
   non-empty imdbRating, and keeps Year, Genre, Actors (Main) and BoxOffice. *)
C7_NotFoundTag ==
    \A n \in Rows :
        (rowlog[n].outcome = "reconciled" /\ HasEntry(n)
            /\ Entry(n).kind = "dict" /\ Entry(n).Response # "True")
        => /\ df[n].imdbRating =
                 IF EmptyCell(input[n].imdbRating)
                 THEN <<"NOT FOUND: ">> \o clean_text(Get(Entry(n), "Error", <<"Unknown">>))
                 ELSE input[n].imdbRating
           /\ \A col \in {"Year", "Genre", "Actors", "BoxOffice"} :
                 df[n][col] = input[n][col]

C7_Witness ==
    \E m, n \in Rows :
        /\ rowlog[m].outcome = "reconciled" /\ rowlog[n].outcome = "reconciled"
        /\ InputKey(m) = InputKey(n)
        /\ HasEntry(m)
        /\ Entry(m) = NotFound
        /\ rowlog[m].fetch = "returned" /\ rowlog[n].hit
        /\ EmptyCell(input[m].imdbRating)
        /\ df[m].imdbRating = <<"NOT FOUND: ", "n", "f">>
        /\ input[n].imdbRating = <<"7">>
        /\ df[n].imdbRating = <<"7">>

(* C8: save_cache is called exactly once while a row is processed if the
   row was a cache miss whose fetch returned a response, and is not called
   for any other row (a hit, a skipped row, an exhausted fetch). *)
C8_SavePerReturnedFetch ==
    \A n \in Rows :
        rowlog[n].outcome # "pending" =>
            rowlog[n].saves = (IF rowlog[n].fetch = "returned" THEN 1 ELSE 0)

(* C9: whatever step of save_cache the process is interrupted at, the file
   at the cache path is never partially written: it holds what it held when
   save_cache was entered or the complete new mapping, and it is absent only
   if it was absent before. *)
C9_AtomicSave ==
    path # NoPath =>
        /\ fs[path].kind # "partial"
        /\ fs[path] = saveFrom \/ fs[path] = cache
        /\ fs[path].kind = "absent" => saveFrom.kind = "absent"

C9_Witness ==
    /\ pc = "interrupted"
    /\ path = CachePath
    /\ fs[TmpPath(path)].kind = "partial"
    /\ fs[path].kind = "dict"
    /\ fs[path] # cache

(* C10, as stated: a later run makes no remote call for a LookupKey whose
   fetch returned a response in an earlier run. *)
C10_NoRefetchOfResponded ==
    \A n \in Rows : Fetched(n) => InputKey(n) \notin responded

(* C10, amended: a later run makes no remote call for a LookupKey whose
   response an earlier run persisted (save_cache reached its os.replace):
   each row with such a key is a cache hit.  A key that was never fetched,
   whose fetch exhausted its retries, or whose response was not persisted
   before the run ended is fetched again. *)
C10_NoRefetchOfPersisted ==
    \A n \in Rows :
        (InputKey(n) \in persisted /\ rowlog[n].lookup)
            => (rowlog[n].hit /\ ~Fetched(n))

C10_Witness ==
    /\ run = 2
    /\ \E m, n \in Rows :
          /\ InputKey(m) \in persisted
          /\ rowlog[m].hit
          /\ InputKey(n) \in responded \ persisted
          /\ Fetched(n)

Count(P(_)) == Cardinality({ n \in Rows : P(n) })

IsHit(n) == rowlog[n].hit
IsCounted(n) == rowlog[n].counted
IsSkipped(n) == rowlog[n].outcome = "skipped"
IsError(n) == rowlog[n].outcome = "error"

(* C11: a row whose Title is missing or empty after cleaning is skipped
   entirely: its cells stay as they were read (the Row cell keeps its
   default), no cache lookup, remote call, cache write or inter-call delay
   happens for it, and it adds nothing to cache_hits or api_calls. *)
C11_SkippedUntouched ==
    /\ \A n \in Rows :
          ~HasTitle(n) =>
              /\ df[n] = input[n]
              /\ rowlog[n] \in {NoLog, [NoLog EXCEPT !.outcome = "skipped"]}
    /\ cache_hits = Count(IsHit)
    /\ api_calls = Count(IsCounted)

C11_Witness ==
    /\ pc = "done"
    /\ \E m, n \in Rows :
          /\ ~HasTitle(m)
          /\ IsSkipped(m)
          /\ output[m].imdbRating = <<"7">>
          /\ output[m].Row = RowDefault
          /\ IsCounted(n)
          /\ api_calls = 1
          /\ cache_hits = 0

(* C12: on a logical success, each of Genre, imdbRating, Actors (Main) and
   BoxOffice of the reconciled row holds the cleaned response value when that
   value is non-empty, and the cell's previous value when the response value
   is missing or cleans to empty. *)
C12_SuccessMerge ==
    \A n \in Rows :
        (rowlog[n].outcome = "reconciled" /\ HasEntry(n) /\ IsSuccess(Entry(n)))
        => \A col \in {"Genre", "imdbRating", "Actors", "BoxOffice"} :
              LET v == Entry(n)[col]
              IN  df[n][col] =
                     IF v \in {MISSING, NA} \/ clean_text(v) = <<>>
                     THEN input[n][col]
                     ELSE clean_text(v)

C12_Witness ==
    \E n \in Rows :
        /\ rowlog[n].outcome = "reconciled"
        /\ HasEntry(n)
        /\ Entry(n) = OkPart
        /\ input[n].Genre = <<"7">>
        /\ df[n].Genre = <<"g">>
        /\ df[n].imdbRating = <<"7">>
        /\ df[n].Actors = <<"7">>
        /\ df[n].BoxOffice = <<"7">>

(* C14: load_cache never raises and always returns a mapping: the stored
   mapping when the file holds one, the empty mapping when the path is unset,
   the file is absent or its contents are anything else. *)
C14_LoadReturnsMapping ==
    pc # "start" =>
        /\ cache.kind = "dict"
        /\ (pc = "loop" /\ i = 0) =>
              cache.map = (IF path # NoPath /\ fs[path].kind = "dict"
                           THEN fs[path].map ELSE EmptyMap)

(* C15: processing a row never changes its Title cell or a column outside
   the required set, and never changes a cell of another row; after a failure
   outcome (logical not-found or retry exhaustion) the row's Year, Genre,
   Actors (Main) and BoxOffice are as they were read. *)
C15_RowStep ==
    \A n \in Rows :
        /\ df'[n].Title = df[n].Title
        /\ df'[n].Notes = df[n].Notes
        /\ n # i + 1 => df'[n] = df[n]

C15_FailureFrame ==
    \A n \in Rows :
        (\/ IsError(n) /\ rowlog[n].fetch = "exhausted"
         \/ /\ rowlog[n].outcome = "reconciled"
            /\ HasEntry(n)
            /\ Entry(n).kind = "dict"
            /\ Entry(n).Response # "True")
        => \A col \in {"Year", "Genre", "Actors", "BoxOffice"} :
              df[n][col] = input[n][col]

C15_Frame == []C15_FailureFrame /\ [][C15_RowStep]_vars

C15_Witness ==
    /\ pc = "done"
    /\ \E m, n \in Rows :
          /\ IsError(m)
          /\ rowlog[m].fetch = "exhausted"
          /\ input[m].Genre = <<"7">>
          /\ rowlog[n].outcome = "reconciled"
          /\ HasEntry(n)
          /\ Entry(n) = NotFound
          /\ input[n].Genre = <<"7">>
          /\ output[n].Genre = <<"7">>
          /\ output[n].Row = n

(* C17: omdb_get returns the body of the first attempt that gets status 200
   and a parseable body, whatever its Response flag, after only failed
   attempts and without a further one; it raises only when all `retries`
   attempts have failed, never while an attempt remains. *)
C17_ReturnFirstRaiseLast ==
    /\ pc = "store" =>
          /\ attempt \in 1..retries
          /\ Len(sleeps) = attempt - 1
          /\ data \in Responses
    /\ (pc = "except" /\ err = "RuntimeError") =>
          /\ attempt = retries + 1
          /\ Len(sleeps) = retries

C17_Witness ==
    /\ pc = "store"
    /\ retries = 2
    /\ attempt = 2
    /\ Len(sleeps) = 1
    /\ data = NotFound

(* C18: when the run ends every row has exactly one of four outcomes:
   skipped, cache hit, counted fetch, or row error (imdbRating holds an
   "ERROR: ..." placeholder and no counter was incremented for the row), and
   cache_hits + api_calls + error rows + skipped rows = N. *)
EndsInError(n) ==
    Len(df[n].imdbRating) > 0 /\ df[n].imdbRating[1] = "ERROR: "

C18_OneOutcomePerRow ==
    pc = "done" =>
        /\ \A n \in Rows :
              Cardinality({ o \in {"skipped", "hit", "counted", "error"} :
                  \/ o = "skipped" /\ IsSkipped(n)
                  \/ o = "hit" /\ IsHit(n)
                  \/ o = "counted" /\ IsCounted(n)
                  \/ o = "error" /\ EndsInError(n) }) = 1
        /\ cache_hits + api_calls + Count(EndsInError) + Count(IsSkipped) = NumRows

(* C19: within a run the in-memory cache only grows: an entry that is
   present is never removed and never replaced by another response. *)
C19_CacheOnlyGrows ==
    [][ /\ cache.kind # "dict" => cache' = cache
        /\ \A k \in DOMAIN cache.map :
              k \in DOMAIN cache'.map /\ cache'.map[k] = cache.map[k] ]_vars

C19_Witness ==
    /\ pc = "done"
    /\ cache.kind = "dict"
    /\ fs[CachePath].kind = "dict"
    /\ rowlog[1].hit
    /\ \E n \in Rows : rowlog[n].stored
    /\ Cardinality(DOMAIN cache.map) = 2

(* C20: starting from a cache file that is absent or holds a mapping, the
   in-memory cache and the cache file hold the same mapping at every row
   boundary, also after a save_cache call that failed. *)
C20_MemoryEqualsFile ==
    (/\ pc = "loop"
     /\ path # NoPath
     /\ cache.kind = "dict"
     /\ fs[path].kind \in {"absent", "dict"})
    => IF fs[path].kind = "absent"
       THEN DOMAIN cache.map = {}
       ELSE fs[path].map = cache.map

(* C13: the LookupKey depends only on the normalized title and year: two
   rows whose titles differ only in letter case, in leading or trailing
   whitespace, in runs of whitespace or in curly versus straight quotes, and
   whose years normalize to the same string, get the same key; rows whose
   normalized years differ get different keys. *)
C13_KeyStable ==
    probe.stage = "keyed" =>
        /\ (probe.same /\ normalize_year(probe.ys) = normalize_year(probe.yt))
              => probe.ks = probe.kt
        /\ normalize_year(probe.ys) # normalize_year(probe.yt)
              => probe.ks # probe.kt

C13_Witness ==
    /\ probe.stage = "keyed"
    /\ probe.same
    /\ probe.s = <<" ", "a", "'">>
    /\ probe.t = <<" ", "A", "'">>
    /\ probe.ys = Y1999
    /\ probe.yt = Y1999
    /\ probe.ks = probe.kt
    /\ probe.ks = <<"a", "'", "|", "|", "1", "9", "9", "9">>

(* C16: clean_text is total and idempotent: for every input, missing values
   included, it returns a string, cleaning the result again gives the same
   string, and the result has no leading or trailing whitespace and no two
   whitespace characters in a row. *)
C16_CleanTotalIdempotent ==
    /\ probe.stage # "raised"
    /\ probe.stage = "recleaned" => probe.again = probe.out
    /\ probe.stage \in {"cleaned", "recleaned"} =>
          LET r == probe.out
          IN  /\ r # <<>> => (~Blank(r[1]) /\ ~Blank(r[Len(r)]))
              /\ \A k \in 1..(Len(r) - 1) : ~(Blank(r[k]) /\ Blank(r[k + 1]))

====
